---------------------------- MODULE Spec2Model ----------------------------
(***************************************************************************)
(* Python Scraper Studio: the wizard of src/App.tsx and the code generator *)
(* of src/unnamed/part_000 (imported by App.tsx as services/codeGenerator).*)
(*                                                                         *)
(* Strings are sequences of one-character strings, so that trim, split,    *)
(* indexOf, substring and replace are computed as the code computes them.  *)
(***************************************************************************)
EXTENDS Integers, Sequences, FiniteSets, TLC

(***************************************************************************)
(* JavaScript string primitives used by the two selector builders.         *)
(***************************************************************************)
IsSpace(c) == c \in {" ", "\t", "\n"}

Min(a, b) == IF a <= b THEN a ELSE b

Max(a, b) == IF a >= b THEN a ELSE b

RECURSIVE trimStart(_)
trimStart(s) ==
    IF s # <<>> /\ IsSpace(Head(s)) THEN trimStart(Tail(s)) ELSE s

RECURSIVE trimEnd(_)
trimEnd(s) ==
    IF s # <<>> /\ IsSpace(s[Len(s)]) THEN trimEnd(SubSeq(s, 1, Len(s) - 1)) ELSE s

trim(s) == trimEnd(trimStart(s))

\* s.indexOf(c): 0-based position of the first c, -1 when there is none
indexOf(s, c) ==
    IF \E i \in 1..Len(s) : s[i] = c
    THEN (CHOOSE i \in 1..Len(s) : s[i] = c /\ \A j \in 1..(i - 1) : s[j] # c) - 1
    ELSE -1

includes(s, c) == indexOf(s, c) # -1

\* s.substring(a, b): 0-based, half open, arguments clamped and swapped when a > b
substring(s, a, b) ==
    LET ca == Max(0, Min(a, Len(s)))
        cb == Max(0, Min(b, Len(s)))
    IN  SubSeq(s, Min(ca, cb) + 1, Max(ca, cb))

\* s.substring(a)
substringFrom(s, a) == substring(s, a, Len(s))

startsWith(s, c) == s # <<>> /\ Head(s) = c

endsWith(s, c) == s # <<>> /\ s[Len(s)] = c

\* s.startsWith(prefix) for a string prefix
startsWithStr(s, prefix) == Len(s) >= Len(prefix) /\ SubSeq(s, 1, Len(prefix)) = prefix

\* s.split(c) for a one-character separator: "".split(",") is [""]
RECURSIVE split(_, _)
split(s, c) ==
    LET i == indexOf(s, c)
    IN  IF i = -1 THEN <<s>>
        ELSE <<SubSeq(s, 1, i)>> \o split(SubSeq(s, i + 2, Len(s)), c)

\* s.split(/\s+/): a leading or trailing run of whitespace yields an empty token
RECURSIVE splitWs(_)
splitWs(s) ==
    IF \E i \in 1..Len(s) : IsSpace(s[i])
    THEN LET i == CHOOSE k \in 1..Len(s) :
                      IsSpace(s[k]) /\ \A j \in 1..(k - 1) : ~IsSpace(s[j])
         IN  <<SubSeq(s, 1, i - 1)>> \o splitWs(trimStart(SubSeq(s, i, Len(s))))
    ELSE <<s>>

\* xs.filter(Boolean) / xs.filter(p => p) on strings: drops the empty ones
filterNonEmpty(xs) == SelectSeq(xs, LAMBDA x : x # <<>>)

\* xs.join(sep)
RECURSIVE join(_, _)
join(xs, sep) ==
    IF xs = <<>> THEN <<>>
    ELSE IF Len(xs) = 1 THEN xs[1]
    ELSE xs[1] \o sep \o join(Tail(xs), sep)

\* s.replace(/c/g, r): every occurrence of the character c becomes the string r
RECURSIVE replaceAll(_, _, _)
replaceAll(s, c, r) ==
    IF s = <<>> THEN <<>>
    ELSE (IF Head(s) = c THEN r ELSE <<Head(s)>>) \o replaceAll(Tail(s), c, r)

\* s.replace(/\s/g, r)
RECURSIVE replaceSpaces(_, _)
replaceSpaces(s, r) ==
    IF s = <<>> THEN <<>>
    ELSE (IF IsSpace(Head(s)) THEN r ELSE <<Head(s)>>) \o replaceSpaces(Tail(s), r)

UpperToLower ==
    [c \in {"A", "C", "D", "I", "L", "S"} |->
        CASE c = "A" -> "a" [] c = "C" -> "c" [] c = "D" -> "d"
          [] c = "I" -> "i" [] c = "L" -> "l" [] c = "S" -> "s"]

\* s.toLowerCase(), on the upper-case letters the inputs of the model use
toLowerCase(s) ==
    [i \in 1..Len(s) |-> IF s[i] \in DOMAIN UpperToLower THEN UpperToLower[s[i]] ELSE s[i]]

\* the words the code compares with
sId == <<"i", "d">>

sClass == <<"c", "l", "a", "s", "s">>

sStyle == <<"s", "t", "y", "l", "e">>

sOn == <<"o", "n">>

DQ == "\""

SQ == "'"

BS == "\\"

(***************************************************************************)
(* src/unnamed/part_000: convertToCssSelector, the selector of the         *)
(* generated program.                                                      *)
(***************************************************************************)
\* one iteration in which a generic constraint replaces the bracket filters before it
cssSelectorPartReplacing(selector, part) ==
    LET eqIndex == indexOf(part, "=")
        key == trim(substring(part, 0, eqIndex))
        raw == trim(substringFrom(part, eqIndex + 1))
        value == IF (startsWith(raw, DQ) /\ endsWith(raw, DQ))
                    \/ (startsWith(raw, SQ) /\ endsWith(raw, SQ))
                 THEN substring(raw, 1, Len(raw) - 1)
                 ELSE raw
        kept == IF includes(selector, "[")
                THEN substring(selector, 0, indexOf(selector, "["))
                ELSE selector
    IN  IF key # <<>> /\ value # <<>>
        THEN IF toLowerCase(key) = sId
             THEN selector \o <<"#">> \o splitWs(value)[1]
             ELSE IF toLowerCase(key) = sClass
             THEN LET classes == join(filterNonEmpty(splitWs(value)), <<".">>)
                  IN  IF classes # <<>> THEN selector \o <<".">> \o classes ELSE selector
             ELSE kept \o <<"[">> \o key \o <<"=", DQ>>
                       \o replaceAll(value, DQ, <<BS, DQ>>) \o <<DQ, "]">>
        ELSE selector

\* lines 57-69: one iteration of the loop over the parts
cssSelectorPart(selector, part) ==
    LET eqIndex == indexOf(part, "=")
        key == trim(substring(part, 0, eqIndex))
        raw == trim(substringFrom(part, eqIndex + 1))
        value == IF (startsWith(raw, DQ) /\ endsWith(raw, DQ))
                    \/ (startsWith(raw, SQ) /\ endsWith(raw, SQ))
                 THEN substring(raw, 1, Len(raw) - 1)
                 ELSE raw
    IN  IF key # <<>> /\ value # <<>>
        THEN IF toLowerCase(key) = sId
             THEN selector \o <<"#">> \o splitWs(value)[1]
             ELSE IF toLowerCase(key) = sClass
             THEN LET classes == join(filterNonEmpty(splitWs(value)), <<".">>)
                  IN  IF classes # <<>> THEN selector \o <<".">> \o classes ELSE selector
             ELSE selector \o <<"[">> \o key \o <<"=", DQ>>
                           \o replaceAll(value, DQ, <<BS, DQ>>) \o <<DQ, "]">>
        ELSE selector

RECURSIVE cssSelectorLoop(_, _)
cssSelectorLoop(selector, parts) ==
    IF parts = <<>> THEN selector
    ELSE cssSelectorLoop(cssSelectorPart(selector, Head(parts)), Tail(parts))

\* lines 50-76 (no string operation of the try block throws, so the catch is dead)
convertToCssSelector(tag, attrs) ==
    IF trim(tag) = <<>> THEN <<>>
    ELSE IF trim(attrs) = <<>> THEN trim(tag)
    ELSE LET trimmed == [i \in 1..Len(split(attrs, ",")) |-> trim(split(attrs, ",")[i])]
             parts == SelectSeq(trimmed, LAMBDA p : includes(p, "="))
         IN  cssSelectorLoop(trim(tag), parts)

(***************************************************************************)
(* src/App.tsx: convertToSelector, the selector of the interactive test.   *)
(***************************************************************************)
\* lines 185-198: one iteration of the loop over the parts
selectorPart(selector, part) ==
    LET eqIndex == indexOf(part, "=")
        key == trim(substring(part, 0, eqIndex))
        value == trim(substringFrom(part, eqIndex + 1))
    IN  IF eqIndex = -1 THEN selector
        ELSE IF key # <<>> /\ value # <<>>
        THEN IF toLowerCase(key) = sId
             THEN selector \o <<"#">> \o replaceSpaces(value, <<"#">>)
             ELSE IF toLowerCase(key) = sClass
             THEN LET classes == join(filterNonEmpty(splitWs(value)), <<".">>)
                  IN  IF classes # <<>> THEN selector \o <<".">> \o classes ELSE selector
             ELSE selector \o <<"[">> \o key \o <<"=", DQ>>
                           \o replaceAll(value, DQ, <<BS, DQ>>) \o <<DQ, "]">>
        ELSE selector

RECURSIVE selectorLoop(_, _)
selectorLoop(selector, parts) ==
    IF parts = <<>> THEN selector
    ELSE selectorLoop(selectorPart(selector, Head(parts)), Tail(parts))

\* lines 179-204 (the catch is dead here too)
convertToSelector(t, a) ==
    IF trim(a) = <<>> THEN trim(t)
    ELSE LET trimmed == [i \in 1..Len(split(a, ",")) |-> trim(split(a, ",")[i])]
             parts == filterNonEmpty(trimmed)
         IN  selectorLoop(trim(t), parts)

(***************************************************************************)
(* The documents of the model and the DOM queries handleTest makes.  An    *)
(* element is [tag, attrs, parent, text]: attrs is the ordered list of     *)
(* <<name, value>> pairs (id and class among them), parent the index of    *)
(* the parent element (0: child of the body), text its textContent.        *)
(***************************************************************************)
sDiv == <<"d", "i", "v">>

sSpan == <<"s", "p", "a", "n">>

sCard == <<"c", "a", "r", "d">>

Element(tag, attrs, parent, text) ==
    [tag |-> tag, attrs |-> attrs, parent |-> parent, text |-> text]

\* three cards, two of them with a title (the first with two), as in the
\* end-to-end scenario of the specification
Doc1 ==
    << Element(sDiv, << <<sId, <<"m">>>>, <<sClass, sCard>>, <<sStyle, <<"x">>>> >>, 0,
               <<" ", "A", "B", " ">>),
       Element(sSpan, << <<sClass, <<"t">>>> >>, 1, <<" ", "A">>),
       Element(sSpan, << <<sClass, <<"t">>>> >>, 1, <<"B", " ">>),
       Element(sDiv, << <<sClass, sCard>> >>, 0, <<"C">>),
       Element(sSpan, << <<sClass, <<"t">>>>, <<sOn \o <<"x">>, <<"f">>>> >>, 4, <<"C">>),
       Element(sDiv, << <<sClass, sCard>> >>, 0, <<>>) >>

\* the document of a second file: one div
Doc2 == << Element(sDiv, <<>>, 0, <<"D">>) >>

\* document 0 is the about:blank document of an iframe whose srcdoc has not loaded
Docs == [d \in 0..2 |-> IF d = 0 THEN <<>> ELSE IF d = 1 THEN Doc1 ELSE Doc2]


Letters ==
    {"a", "b", "c", "d", "e", "f", "g", "h", "i", "j", "k", "l", "m", "n", "o", "p",
     "q", "r", "s", "t", "u", "v", "w", "x", "y", "z",
     "A", "C", "D", "I", "L", "S", "_", "-"}

\* the length of the longest prefix of s made of identifier characters
nameLen(s) ==
    IF \E i \in 1..Len(s) : s[i] \notin Letters
    THEN (CHOOSE i \in 1..Len(s) : s[i] \notin Letters /\ \A j \in 1..(i - 1) : s[j] \in Letters) - 1
    ELSE Len(s)

BadSelector == [ok |-> FALSE, tag |-> <<>>, ids |-> <<>>, classes |-> <<>>, attrs |-> <<>>]

\* a double-quoted CSS string, read from after its opening quote
RECURSIVE cssString(_, _)
cssString(s, acc) ==
    IF s = <<>> THEN [ok |-> FALSE, value |-> acc, rest |-> <<>>]
    ELSE IF Head(s) = DQ THEN [ok |-> TRUE, value |-> acc, rest |-> Tail(s)]
    ELSE IF Head(s) = BS
    THEN IF Len(s) >= 2 /\ s[2] \in {DQ, BS}
         THEN cssString(SubSeq(s, 3, Len(s)), Append(acc, s[2]))
         ELSE [ok |-> FALSE, value |-> acc, rest |-> <<>>]
    ELSE IF Head(s) = "\n" THEN [ok |-> FALSE, value |-> acc, rest |-> <<>>]
    ELSE cssString(Tail(s), Append(acc, Head(s)))

\* the #id, .class and [key="value"] parts of a compound selector
RECURSIVE parseCompound(_, _)
parseCompound(s, acc) ==
    IF s = <<>> THEN acc
    ELSE LET c == Head(s)
             r == Tail(s)
             n == nameLen(r)
             afterKey == SubSeq(r, n + 1, Len(r))
         IN  IF c \in {"#", "."}
             THEN IF n = 0 THEN BadSelector
                  ELSE parseCompound(afterKey,
                           IF c = "#" THEN [acc EXCEPT !.ids = Append(@, SubSeq(r, 1, n))]
                           ELSE [acc EXCEPT !.classes = Append(@, SubSeq(r, 1, n))])
             ELSE IF c = "["
             THEN IF n = 0 \/ Len(afterKey) < 2 \/ afterKey[1] # "=" \/ afterKey[2] # DQ
                  THEN BadSelector
                  ELSE LET str == cssString(SubSeq(afterKey, 3, Len(afterKey)), <<>>)
                       IN  IF ~str.ok \/ str.rest = <<>> \/ Head(str.rest) # "]"
                           THEN BadSelector
                           ELSE parseCompound(Tail(str.rest),
                                    [acc EXCEPT !.attrs = Append(@, <<SubSeq(r, 1, n), str.value>>)])
             ELSE BadSelector

\* The selectors the two builders emit are compound selectors: an optional type
\* selector, then #id, .class and [key="value"] parts.  Anything else is refused,
\* as the browser refuses a selector it cannot parse (a SyntaxError).
parseSelector(sel) ==
    IF sel = <<>> THEN BadSelector
    ELSE parseCompound(SubSeq(sel, nameLen(sel) + 1, Len(sel)),
             [ok |-> TRUE, tag |-> SubSeq(sel, 1, nameLen(sel)),
              ids |-> <<>>, classes |-> <<>>, attrs |-> <<>>])

hasAttr(el, name) == \E i \in 1..Len(el.attrs) : el.attrs[i][1] = name

getAttr(el, name) == el.attrs[CHOOSE i \in 1..Len(el.attrs) : el.attrs[i][1] = name][2]

seqToSet(xs) == {xs[i] : i \in 1..Len(xs)}

matchesSelector(el, p) ==
    /\ p.tag = <<>> \/ toLowerCase(p.tag) = el.tag
    /\ \A i \in 1..Len(p.ids) : hasAttr(el, sId) /\ getAttr(el, sId) = p.ids[i]
    /\ \A i \in 1..Len(p.classes) :
           hasAttr(el, sClass) /\ p.classes[i] \in seqToSet(splitWs(getAttr(el, sClass)))
    /\ \A i \in 1..Len(p.attrs) :
           hasAttr(el, p.attrs[i][1]) /\ getAttr(el, p.attrs[i][1]) = p.attrs[i][2]

RECURSIVE isDescendant(_, _, _)
isDescendant(doc, i, c) ==
    /\ doc[i].parent # 0
    /\ doc[i].parent = c \/ isDescendant(doc, doc[i].parent, c)

indexSeq(n) == [i \in 1..n |-> i]

\* doc.querySelectorAll(selector): the indexes of the matches in document order,
\* or throws for a selector that does not parse
querySelectorAll(doc, selector) ==
    LET p == parseSelector(selector)
    IN  IF ~p.ok THEN [throws |-> TRUE, els |-> <<>>]
        ELSE [throws |-> FALSE,
              els |-> SelectSeq(indexSeq(Len(doc)), LAMBDA i : matchesSelector(doc[i], p))]

\* c.querySelector(selector) is truthy: some descendant of c matches
querySelectorIn(doc, c, selector) ==
    \E i \in 1..Len(doc) :
        isDescendant(doc, i, c) /\ matchesSelector(doc[i], parseSelector(selector))

(***************************************************************************)
(* src/App.tsx: the state of the App component.                            *)
(*                                                                         *)
(* An optional value (T | null) is a sequence of length 0 or 1.            *)
(* htmlContent names the uploaded page (0: null).  iframeDoc names the     *)
(* document of the preview iframe, which exists only at step 4 (0: the     *)
(* about:blank document it has before its srcdoc has loaded).              *)
(* reading holds the files a FileReader is still reading, timers the       *)
(* setTimeout(..., 0) callbacks handleClick scheduled, in firing order.    *)
(* url, sampleHtml and seleniumCode are left out: only the display of      *)
(* steps 1 and 2 reads them, and the url field is an input of              *)
(* handleUrlSubmit here.  events counts what the user has done so far,     *)
(* which the model bounds by MaxEvents; the completions of what the user   *)
(* started (a file read, the iframe's load, a timer's callback) are not    *)
(* counted.                                                                *)
(***************************************************************************)
VARIABLES step, startMethod, htmlContent, fileName, scrapingMode, container,
          containerTestResult, isContainerSet, extractors, testResults, selectingFor,
          error, bsCode, outputFormat, iframeDoc, reading, timers, events

vars == <<step, startMethod, htmlContent, fileName, scrapingMode, container,
          containerTestResult, isContainerSet, extractors, testResults, selectingFor,
          error, bsCode, outputFormat, iframeDoc, reading, timers, events>>

(***************************************************************************)
(* Bounds and inputs.                                                      *)
(***************************************************************************)
\* at most this many extractors in the list (Add Field is unbounded in the code)
MaxExtractors == 2

\* at most this many files are being read by a FileReader at once
MaxReading == 1

\* at most this many things the user does in a session (choices, edits, clicks)
MaxEvents == 8

\* Date.now() reads the wall clock, and nothing makes two readings differ.  Ids are
\* only compared for equality, so the reading at mount is called 1 and a later
\* reading is one of two values.
Times == {1, 2}

\* what the user types into a tag field
TagInputs == {<<>>, <<" ">>, sDiv, <<"p">>}

\* what the user types into an attributes field
AttrInputs == {sClass \o <<"=", DQ>> \o sCard \o <<DQ>>}

\* what the user types into a name field
NameInputs == {<<"t", SQ>>}

pageHtml == <<"p", "a", "g", "e", ".", "h", "t", "m", "l">>

\* the files the user can pick: [name, type, content]
pageFile == [name |-> <<"a", DQ, ".", "h", "t", "m", "l">>, type |-> "text/html", content |-> 1]

textFile == [name |-> <<"n", ".", "t", "x", "t">>, type |-> "text/plain", content |-> 1]

\* a second page, with the document Doc2
otherFile == [name |-> <<"b", ".", "h", "t", "m", "l">>, type |-> "text/html", content |-> 2]

Files == {pageFile, textFile}

Formats == {"csv", "json", "print"}

Modes == {"structured", "simple"}

\* the url field when Generate Selenium Code is pressed
Urls == {<<>>, <<"h", "t", "t", "p", ":", "/", "/", "x">>, <<"f", "t", "p">>}

sHttp == <<"h", "t", "t", "p">>

(***************************************************************************)
(* src/App.tsx: handleTest, as the result it records.                      *)
(* A result is [count, preview, error] and, as history, input: the         *)
(* arguments and closure the test ran with, the document it queried and    *)
(* the selectors it passed to the document.  preview is the list of the    *)
(* fragments the code concatenates.                                        *)
(***************************************************************************)
testInput(tag, attrs, cont, mode, doc, queries) ==
    [tag |-> tag, attrs |-> attrs, container |-> cont, mode |-> mode,
     doc |-> doc, queries |-> queries]

\* an empty tag reported as a success
emptyTagResultAccepted(input) ==
    [count |-> 0, preview |-> <<"HTML Tag is empty.">>, error |-> FALSE, input |-> input]

\* line 209
emptyTagResult(input) ==
    [count |-> 0, preview |-> <<"HTML Tag is empty.">>, error |-> TRUE, input |-> input]

\* a refused selector reported as one match
invalidResultAccepted(input) ==
    [count |-> 1, preview |-> <<"Invalid Tag or Attributes for testing.">>, error |-> FALSE,
     input |-> input]

\* line 248
invalidResult(input) ==
    [count |-> 0, preview |-> <<"Invalid Tag or Attributes for testing.">>, error |-> TRUE,
     input |-> input]

\* no container reported with the diagnostic of a field that no container holds
noContainersResultAsNotFound(input) ==
    [count |-> 0, preview |-> <<"0", " of ", "0", " containers have a match.">>,
     error |-> TRUE, input |-> input]

\* line 238
noContainersResult(input) ==
    [count |-> 0, preview |-> <<"No containers found to test within.">>, error |-> TRUE,
     input |-> input]

\* lines 222-226
containerResult(count, input) ==
    [count |-> count,
     preview |-> <<"Found ", ToString(count), " repeating container elements.">>,
     error |-> ~(count > 0), input |-> input]

\* every match inside a container counted, not every container with a match
matchesInContainersTotal(doc, containers, selector) ==
    SelectSeq(indexSeq(Len(doc)),
              LAMBDA i : /\ matchesSelector(doc[i], parseSelector(selector))
                         /\ \E k \in 1..Len(containers) : isDescendant(doc, i, containers[k]))

\* lines 233-236: the containers c with c.querySelector(selector)
matchesInContainers(doc, containers, selector) ==
    SelectSeq(containers, LAMBDA c : querySelectorIn(doc, c, selector))

coverageResult(count, total, input) ==
    [count |-> count,
     preview |-> <<ToString(count), " of ", ToString(total), " containers have a match.">>,
     error |-> (count = 0), input |-> input]

PreviewCount == 3

PreviewLen == 20

\* line 243: (el.textContent || '').trim().slice(0, 20).concat('...')
snippet(text) == SubSeq(trim(text), 1, Min(PreviewLen, Len(trim(text)))) \o <<"...">>

\* lines 241-244 (the preview is never empty, so its fallback is dead)
totalResult(doc, els, input) ==
    [count |-> Len(els),
     preview |-> <<"Found ", ToString(Len(els)), " total matches. Preview: ">>
                 \o join([i \in 1..Min(PreviewCount, Len(els)) |-> snippet(doc[els[i]].text)],
                         <<" | ">>),
     error |-> (Len(els) = 0), input |-> input]

\* lines 206-255.  hasDoc: iframeRef.current?.contentDocument is not null; docId: that
\* document; cMode and cContainer: scrapingMode and container of the closure.
handleTestResult(type, tag, attrs, hasDoc, docId, cMode, cContainer) ==
    LET doc == Docs[docId]
        selector == convertToSelector(tag, attrs)
        containerSelector == convertToSelector(cContainer.tag, cContainer.attrs)
        inp(queries) == testInput(tag, attrs, cContainer, cMode,
                                 IF queries = <<>> THEN {} ELSE {docId}, queries)
    IN  IF trim(tag) = <<>> \/ ~hasDoc THEN emptyTagResult(inp(<<>>))
        ELSE IF type = "container"
        THEN LET m == querySelectorAll(doc, selector)
             IN  IF m.throws THEN invalidResult(inp(<<selector>>))
                 ELSE containerResult(Len(m.els), inp(<<selector>>))
        ELSE IF cMode = "structured" /\ cContainer.tag # <<>>
        THEN LET cs == querySelectorAll(doc, containerSelector)
             IN  IF cs.throws THEN invalidResult(inp(<<containerSelector>>))
                 ELSE IF Len(cs.els) > 0
                 THEN IF ~parseSelector(selector).ok
                      THEN invalidResult(inp(<<containerSelector, selector>>))
                      ELSE coverageResult(Len(matchesInContainers(doc, cs.els, selector)),
                                          Len(cs.els), inp(<<containerSelector, selector>>))
                 ELSE noContainersResult(inp(<<containerSelector>>))
        ELSE LET m == querySelectorAll(doc, selector)
             IN  IF m.throws THEN invalidResult(inp(<<selector>>))
                 ELSE totalResult(doc, m.els, inp(<<selector>>))

\* lines 226-227, 211-212, 250-251: what a container test sets isContainerSet to
containerIsSuccess(result) == result.count > 0

(***************************************************************************)
(* src/App.tsx: generateExtractorDetails (lines 257-278).                  *)
(***************************************************************************)
keptAttributes(el) ==
    SelectSeq(el.attrs,
              LAMBDA a : ~(a[2] = <<>> \/ toLowerCase(a[1]) = sId \/ toLowerCase(a[1]) = sStyle
                           \/ startsWithStr(toLowerCase(a[1]), sOn)))

generateExtractorDetails(el) ==
    [tag |-> toLowerCase(el.tag),
     attrs |-> join([i \in 1..Len(keptAttributes(el)) |->
                        toLowerCase(keptAttributes(el)[i][1]) \o <<"=">> \o keptAttributes(el)[i][2]],
                    <<",", " ">>)]

(***************************************************************************)
(* src/unnamed/part_000: the generated program, as the texts the template  *)
(* literals are filled with.  file_name, container_selector and selector   *)
(* are the characters written between the double quotes of the Python      *)
(* string literals, name the characters written between single quotes.     *)
(***************************************************************************)
\* .replace(/"/g, '\\"')
escapeQuotes(s) == replaceAll(s, DQ, <<BS, DQ>>)

\* lines 226-228
placeholderCode ==
    [kind |-> "placeholder", imports |-> <<>>, file_name |-> <<>>, mode |-> "",
     container_selector |-> <<>>, fields |-> <<>>, tail |-> ""]

\* useState('') of line 30
noCode ==
    [kind |-> "", imports |-> <<>>, file_name |-> <<>>, mode |-> "",
     container_selector |-> <<>>, fields |-> <<>>, tail |-> ""]

\* a structured program whose container selector follows the output format
generateContainerBasedScriptPerFormat(cont, exts, format) ==
    [mode |-> "structured",
     container_selector |-> IF format = "print" THEN <<"*">>
                            ELSE escapeQuotes(convertToCssSelector(cont.tag, cont.attrs)),
     fields |-> [i \in 1..Len(exts) |->
                    [selector |-> escapeQuotes(convertToCssSelector(exts[i].tag, exts[i].attrs)),
                     name |-> exts[i].name]],
     tail |-> format]

\* lines 78-147
generateContainerBasedScript(cont, exts, format) ==
    [mode |-> "structured",
     container_selector |-> escapeQuotes(convertToCssSelector(cont.tag, cont.attrs)),
     fields |-> [i \in 1..Len(exts) |->
                    [selector |-> escapeQuotes(convertToCssSelector(exts[i].tag, exts[i].attrs)),
                     name |-> exts[i].name]],
     tail |-> format]

\* the program of simple mode generated from the tag alone
generateSimpleListScriptOfTag(extractor, format) ==
    [mode |-> "simple",
     container_selector |-> <<>>,
     fields |-> << [selector |-> escapeQuotes(convertToCssSelector(extractor.tag, <<>>)),
                    name |-> IF format = "print" THEN <<>> ELSE extractor.name] >>,
     tail |-> format]

\* lines 149-211: the name is written by the csv and json tails only
generateSimpleListScript(extractor, format) ==
    [mode |-> "simple",
     container_selector |-> <<>>,
     fields |-> << [selector |-> escapeQuotes(convertToCssSelector(extractor.tag, extractor.attrs)),
                    name |-> IF format = "print" THEN <<>> ELSE extractor.name] >>,
     tail |-> format]

\* lines 231-233
importsOf(format) ==
    <<"from bs4 import BeautifulSoup">>
    \o (IF format = "csv" THEN <<"import csv">> ELSE <<>>)
    \o (IF format = "json" THEN <<"import json">> ELSE <<>>)

\* lines 221-260
generateBeautifulSoupCode(mode, cont, exts, file, format) ==
    IF \/ mode = "structured" /\ (cont.tag = <<>> \/ Len(exts) = 0)
       \/ mode = "simple" /\ (Len(exts) = 0 \/ exts[1].tag = <<>>)
    THEN placeholderCode
    ELSE LET mainScript == IF mode = "structured"
                           THEN generateContainerBasedScript(cont, exts, format)
                           ELSE generateSimpleListScript(exts[1], format)
         IN  [kind |-> "program", imports |-> importsOf(format),
              file_name |-> escapeQuotes(file), mode |-> mainScript.mode,
              container_selector |-> mainScript.container_selector,
              fields |-> mainScript.fields, tail |-> mainScript.tail]

(***************************************************************************)
(* src/App.tsx: the initial state (lines 13-37).                           *)
(***************************************************************************)
emptyDescriptor == [tag |-> <<>>, attrs |-> <<>>]

itemName(n) == <<"i", "t", "e", "m", "_", ToString(n)>>

\* { id: Date.now(), name: 'item_1', tag: '', attrs: '' }
newExtractor(id, n) == [id |-> id, name |-> itemName(n), tag |-> <<>>, attrs |-> <<>>]

notSelecting == [kind |-> "none", id |-> 0]

Init ==
    /\ step = 1
    /\ startMethod = "url"
    /\ htmlContent = 0
    /\ fileName = pageHtml
    /\ scrapingMode = "structured"
    /\ container = emptyDescriptor
    /\ containerTestResult = <<>>
    /\ isContainerSet = FALSE
    /\ extractors = <<newExtractor(1, 1)>>
    /\ testResults = <<>>
    /\ selectingFor = notSelecting
    /\ error = ""
    /\ bsCode = noCode
    /\ outputFormat = "csv"
    /\ iframeDoc = 0
    /\ reading = <<>>
    /\ timers = <<>>
    /\ events = 0

(***************************************************************************)
(* src/App.tsx: the handlers.  Each action is guarded by what renderStep   *)
(* shows at the current step (lines 343-429): a handler runs only when its *)
(* control is on the page and enabled.                                     *)
(***************************************************************************)
\* the user does something: one more event of the session
userEvent ==
    /\ events < MaxEvents
    /\ events' = events + 1

\* the document of the preview iframe after a render at newStep: the iframe of
\* step 4 is created with about:blank and keeps its document while it stays mounted
iframeAfter(newStep) == IF newStep = 4 /\ step = 4 THEN iframeDoc ELSE 0

removeAt(xs, i) == SubSeq(xs, 1, i - 1) \o SubSeq(xs, i + 1, Len(xs))

\* const n = { ...testResults }; delete n[id]
deleteResult(results, id) == [k \in (DOMAIN results) \ {id} |-> results[k]]

\* prev => ({ ...prev, [id]: result })
putResult(results, id, result) ==
    [k \in (DOMAIN results) \cup {id} |-> IF k = id THEN result ELSE results[k]]

\* prev.map(e => e.id === id ? { ...e, [field]: value } : e)
setField(exts, id, field, value) ==
    [i \in 1..Len(exts) |-> IF exts[i].id = id THEN [exts[i] EXCEPT ![field] = value] ELSE exts[i]]

\* e.target.value.replace(/[^a-zA-Z0-9_]/g, '_') of the name fields (lines 392, 402)
Digits == {"0", "1", "2", "3", "4", "5", "6", "7", "8", "9"}

sanitizeName(s) ==
    [i \in 1..Len(s) |-> IF s[i] \in (Letters \ {"-"}) \cup Digits THEN s[i] ELSE "_"]

\* line 351-352
setStartMethod(m) ==
    /\ userEvent
    /\ step = 1
    /\ startMethod' = m
    /\ UNCHANGED <<step, htmlContent, fileName, scrapingMode, container, containerTestResult,
                   isContainerSet, extractors, testResults, selectingFor, error, bsCode,
                   outputFormat, iframeDoc, reading, timers>>

\* lines 40-49
handleUrlSubmit(url) ==
    /\ userEvent
    /\ step = 1 /\ startMethod = "url"
    /\ IF url = <<>> \/ ~startsWithStr(url, sHttp)
       THEN /\ error' = "Please enter a valid URL (e.g., https://example.com)"
            /\ UNCHANGED step
       ELSE /\ error' = ""
            /\ step' = 2
    /\ UNCHANGED <<startMethod, htmlContent, fileName, scrapingMode, container,
                   containerTestResult, isContainerSet, extractors, testResults, selectingFor,
                   bsCode, outputFormat, iframeDoc, reading, timers>>

\* line 359: onClick={() => setStep(3)}
nextToUpload ==
    /\ userEvent
    /\ step = 2
    /\ step' = 3
    /\ UNCHANGED <<startMethod, htmlContent, fileName, scrapingMode, container,
                   containerTestResult, isContainerSet, extractors, testResults, selectingFor,
                   error, bsCode, outputFormat, iframeDoc, reading, timers>>

\* lines 51-67, up to reader.readAsText(file)
handleFileChange(file) ==
    /\ userEvent
    /\ (step = 1 /\ startMethod = "file") \/ step = 3
    /\ IF file.type = "text/html"
       THEN /\ Len(reading) < MaxReading
            /\ error' = ""
            /\ reading' = Append(reading, file)
       ELSE /\ error' = "Please upload a valid .html file."
            /\ UNCHANGED reading
    /\ UNCHANGED <<step, startMethod, htmlContent, fileName, scrapingMode, container,
                   containerTestResult, isContainerSet, extractors, testResults, selectingFor,
                   bsCode, outputFormat, iframeDoc, timers>>

\* lines 56-61: reader.onload, whenever the read completes
readerOnload(i) ==
    /\ i \in 1..Len(reading)
    /\ htmlContent' = reading[i].content
    /\ fileName' = reading[i].name
    /\ step' = 4
    /\ iframeDoc' = iframeAfter(4)
    /\ reading' = removeAt(reading, i)
    /\ UNCHANGED <<startMethod, scrapingMode, container, containerTestResult, isContainerSet,
                   extractors, testResults, selectingFor, error, bsCode, outputFormat, timers>>
    /\ UNCHANGED events

\* line 367: the iframe finishes loading srcDoc={htmlContent || ''}
iframeLoad ==
    /\ step = 4
    /\ iframeDoc # htmlContent
    /\ iframeDoc' = htmlContent
    /\ UNCHANGED <<step, startMethod, htmlContent, fileName, scrapingMode, container,
                   containerTestResult, isContainerSet, extractors, testResults, selectingFor,
                   error, bsCode, outputFormat, reading, timers>>
    /\ UNCHANGED events

\* lines 69-74
handleAddExtractor(now) ==
    /\ userEvent
    /\ step = 4 /\ scrapingMode = "structured" /\ isContainerSet
    /\ Len(extractors) < MaxExtractors
    /\ extractors' = Append(extractors, newExtractor(now, Len(extractors) + 1))
    /\ UNCHANGED <<step, startMethod, htmlContent, fileName, scrapingMode, container,
                   containerTestResult, isContainerSet, testResults, selectingFor, error,
                   bsCode, outputFormat, iframeDoc, reading, timers>>

\* lines 76-83
removeExtractor(exts, id) == SelectSeq(exts, LAMBDA e : e.id # id)

handleRemoveExtractor(id) ==
    /\ userEvent
    /\ step = 4 /\ scrapingMode = "structured" /\ isContainerSet
    /\ \E i \in 1..Len(extractors) : extractors[i].id = id
    /\ Len(extractors) > 1
    /\ extractors' = removeExtractor(extractors, id)
    /\ testResults' = deleteResult(testResults, id)
    /\ UNCHANGED <<step, startMethod, htmlContent, fileName, scrapingMode, container,
                   containerTestResult, isContainerSet, selectingFor, error, bsCode,
                   outputFormat, iframeDoc, reading, timers>>

\* the extractor rows on the page: all of them in structured mode once the container
\* is set (line 390), the first one in simple mode (line 363)
shownExtractors ==
    IF step # 4 THEN {}
    ELSE IF scrapingMode = "structured"
    THEN (IF isContainerSet THEN 1..Len(extractors) ELSE {})
    ELSE {1} \cap (1..Len(extractors))

\* lines 85-92: what the handler does to extractors and testResults
extractorChanged(exts, id, field, value) == setField(exts, id, field, value)

\* the result of the edited extractor kept
resultsKeptAfterExtractorChange(results, id) == results

resultsAfterExtractorChange(results, id) == deleteResult(results, id)

\* lines 85-92, from the onChange of a field of row i
handleExtractorChange(i, field, value) ==
    /\ userEvent
    /\ i \in shownExtractors
    /\ value # extractors[i][field]
    /\ extractors' = extractorChanged(extractors, extractors[i].id, field, value)
    /\ testResults' = resultsAfterExtractorChange(testResults, extractors[i].id)
    /\ UNCHANGED <<step, startMethod, htmlContent, fileName, scrapingMode, container,
                   containerTestResult, isContainerSet, selectingFor, error, bsCode,
                   outputFormat, iframeDoc, reading, timers>>

\* lines 94-98: what the handler does to containerTestResult and isContainerSet
containerResultAfterChange(result) == <<>>

\* an edit of the container that leaves isContainerSet as it was
containerSetKeptAfterChange(set) == set

containerSetAfterChange(set) == FALSE

\* lines 94-98, from the onChange of a container field
handleContainerChange(field, value) ==
    /\ userEvent
    /\ step = 4 /\ scrapingMode = "structured"
    /\ value # container[field]
    /\ container' = [container EXCEPT ![field] = value]
    /\ containerTestResult' = containerResultAfterChange(containerTestResult)
    /\ isContainerSet' = containerSetAfterChange(isContainerSet)
    /\ UNCHANGED <<step, startMethod, htmlContent, fileName, scrapingMode, extractors,
                   testResults, selectingFor, error, bsCode, outputFormat, iframeDoc, reading,
                   timers>>

\* a mode change that keeps the results of the extractors
handleModeChangeKeepingResults(mode, now) ==
    /\ userEvent
    /\ step = 4
    /\ mode # scrapingMode
    /\ scrapingMode' = mode
    /\ container' = emptyDescriptor
    /\ containerTestResult' = <<>>
    /\ isContainerSet' = FALSE
    /\ extractors' = <<newExtractor(now, 1)>>
    /\ error' = ""
    /\ UNCHANGED <<step, startMethod, htmlContent, fileName, testResults, selectingFor,
                   bsCode, outputFormat, iframeDoc, reading, timers>>

\* lines 100-109
handleModeChange(mode, now) ==
    /\ userEvent
    /\ step = 4
    /\ mode # scrapingMode
    /\ scrapingMode' = mode
    /\ container' = emptyDescriptor
    /\ containerTestResult' = <<>>
    /\ isContainerSet' = FALSE
    /\ extractors' = <<newExtractor(now, 1)>>
    /\ testResults' = <<>>
    /\ error' = ""
    /\ UNCHANGED <<step, startMethod, htmlContent, fileName, selectingFor, bsCode,
                   outputFormat, iframeDoc, reading, timers>>

\* lines 388, 392, 405: the select-element buttons toggle selection mode
selecting(kind, id) == [kind |-> kind, id |-> id]

toggleSelectingContainer ==
    /\ userEvent
    /\ step = 4 /\ scrapingMode = "structured"
    /\ selectingFor' = IF selectingFor = selecting("container", 0) THEN notSelecting
                       ELSE selecting("container", 0)
    /\ UNCHANGED <<step, startMethod, htmlContent, fileName, scrapingMode, container,
                   containerTestResult, isContainerSet, extractors, testResults, error, bsCode,
                   outputFormat, iframeDoc, reading, timers>>

toggleSelectingExtractor(i) ==
    /\ userEvent
    /\ i \in shownExtractors
    /\ selectingFor' = IF selectingFor = selecting("extractor", extractors[i].id)
                       THEN notSelecting
                       ELSE selecting("extractor", extractors[i].id)
    /\ UNCHANGED <<step, startMethod, htmlContent, fileName, scrapingMode, container,
                   containerTestResult, isContainerSet, extractors, testResults, error, bsCode,
                   outputFormat, iframeDoc, reading, timers>>

\* lines 206-255: handleTest with the closure (cMode, cContainer) it was created in;
\* iframeRef.current is null unless step 4 is on the page
handleTest(type, id, tag, attrs, cMode, cContainer) ==
    LET result == handleTestResult(type, tag, attrs, step = 4, iframeDoc, cMode, cContainer)
    IN  IF type = "container"
        THEN /\ containerTestResult' = <<result>>
             /\ isContainerSet' = containerIsSuccess(result)
             /\ UNCHANGED testResults
        ELSE /\ testResults' = putResult(testResults, id, result)
             /\ UNCHANGED <<containerTestResult, isContainerSet>>

\* line 388: the Test container button
testContainer ==
    /\ userEvent
    /\ step = 4 /\ scrapingMode = "structured"
    /\ handleTest("container", 0, container.tag, container.attrs, scrapingMode, container)
    /\ UNCHANGED <<step, startMethod, htmlContent, fileName, scrapingMode, container,
                   extractors, selectingFor, error, bsCode, outputFormat, iframeDoc, reading,
                   timers>>

\* lines 392, 406: the Test this field button of row i
testExtractor(i) ==
    /\ userEvent
    /\ i \in shownExtractors
    /\ handleTest("extractor", extractors[i].id, extractors[i].tag, extractors[i].attrs,
                  scrapingMode, container)
    /\ UNCHANGED <<step, startMethod, htmlContent, fileName, scrapingMode, container,
                   extractors, selectingFor, error, bsCode, outputFormat, iframeDoc, reading,
                   timers>>

\* lines 299-322: a click on element el of the preview while selection mode is on.
\* The auto-test is scheduled with the handleTest of the current render.
handleClick(el) ==
    /\ userEvent
    /\ step = 4 /\ selectingFor # notSelecting
    /\ iframeDoc # 0 /\ el \in 1..Len(Docs[iframeDoc])
    /\ LET d == generateExtractorDetails(Docs[iframeDoc][el])
       IN  IF selectingFor.kind = "container"
           THEN /\ container' = [tag |-> d.tag, attrs |-> d.attrs]
                /\ containerTestResult' = containerResultAfterChange(containerTestResult)
                /\ isContainerSet' = containerSetAfterChange(isContainerSet)
                /\ timers' = Append(timers, [type |-> "container", id |-> 0, tag |-> d.tag,
                                             attrs |-> d.attrs, mode |-> scrapingMode,
                                             container |-> container])
                /\ UNCHANGED <<extractors, testResults>>
           ELSE /\ extractors' = extractorChanged(
                                     extractorChanged(extractors, selectingFor.id, "tag", d.tag),
                                     selectingFor.id, "attrs", d.attrs)
                /\ testResults' = resultsAfterExtractorChange(testResults, selectingFor.id)
                /\ timers' = Append(timers, [type |-> "extractor", id |-> selectingFor.id,
                                             tag |-> d.tag, attrs |-> d.attrs,
                                             mode |-> scrapingMode, container |-> container])
                /\ UNCHANGED <<container, containerTestResult, isContainerSet>>
    /\ selectingFor' = notSelecting
    /\ UNCHANGED <<step, startMethod, htmlContent, fileName, scrapingMode, error, bsCode,
                   outputFormat, iframeDoc, reading>>

\* lines 314, 318: the callback of setTimeout(() => handleTest(...), 0)
timerFires ==
    /\ timers # <<>>
    /\ LET t == Head(timers)
       IN  handleTest(t.type, t.id, t.tag, t.attrs, t.mode, t.container)
    /\ timers' = Tail(timers)
    /\ UNCHANGED <<step, startMethod, htmlContent, fileName, scrapingMode, container,
                   extractors, selectingFor, error, bsCode, outputFormat, iframeDoc, reading>>
    /\ UNCHANGED events

\* a validation that looks at the container only
generateErrorContainerOnly ==
    IF scrapingMode = "structured" /\ (~isContainerSet \/ container.tag = <<>>)
    THEN "Please define and successfully test a container before generating the code."
    ELSE ""

\* lines 113-129: the message handleGenerateBsCode refuses with ("" when it does not)
generateError ==
    IF scrapingMode = "structured"
    THEN IF ~isContainerSet \/ container.tag = <<>>
         THEN "Please define and successfully test a container before generating the code."
         ELSE IF \E i \in 1..Len(extractors) :
                     trim(extractors[i].name) = <<>> \/ trim(extractors[i].tag) = <<>>
         THEN "Please fill in all field names and HTML tags for extraction."
         ELSE ""
    ELSE IF trim(extractors[1].name) = <<>> \/ trim(extractors[1].tag) = <<>>
         THEN "Please fill in the field name and HTML tag for extraction."
         ELSE ""

\* lines 111-140, then the effect of lines 335-340; the button is disabled while
\* scrapingMode === 'structured' && !isContainerSet (line 420)
handleGenerateBsCode ==
    /\ userEvent
    /\ step = 4
    /\ ~(scrapingMode = "structured" /\ ~isContainerSet)
    /\ scrapingMode = "simple" => Len(extractors) >= 1
    /\ error' = generateError
    /\ IF generateError # ""
       THEN UNCHANGED <<bsCode, step, iframeDoc>>
       ELSE /\ bsCode' = generateBeautifulSoupCode(scrapingMode, container, extractors,
                                                   fileName, outputFormat)
            /\ step' = 5
            /\ iframeDoc' = iframeAfter(5)
    /\ UNCHANGED <<startMethod, htmlContent, fileName, scrapingMode, container,
                   containerTestResult, isContainerSet, extractors, testResults, selectingFor,
                   outputFormat, reading, timers>>

\* a change of format that leaves the displayed program as it was
setOutputFormatKeepingCode(format) ==
    /\ userEvent
    /\ step = 5
    /\ format # outputFormat
    /\ outputFormat' = format
    /\ UNCHANGED <<step, startMethod, htmlContent, fileName, scrapingMode, container,
                   containerTestResult, isContainerSet, extractors, testResults, selectingFor,
                   error, bsCode, iframeDoc, reading, timers>>

\* line 425: onChange={() => setOutputFormat(format)}, then the effect of lines 335-340
setOutputFormat(format) ==
    /\ userEvent
    /\ step = 5
    /\ format # outputFormat
    /\ outputFormat' = format
    /\ bsCode' = generateBeautifulSoupCode(scrapingMode, container, extractors, fileName, format)
    /\ UNCHANGED <<step, startMethod, htmlContent, fileName, scrapingMode, container,
                   containerTestResult, isContainerSet, extractors, testResults, selectingFor,
                   error, iframeDoc, reading, timers>>

\* lines 142-160
handleStartOver(now) ==
    /\ userEvent
    /\ step = 5
    /\ step' = 1
    /\ startMethod' = "url"
    /\ htmlContent' = 0
    /\ fileName' = pageHtml
    /\ scrapingMode' = "structured"
    /\ container' = emptyDescriptor
    /\ extractors' = <<newExtractor(now, 1)>>
    /\ bsCode' = noCode
    /\ error' = ""
    /\ selectingFor' = notSelecting
    /\ testResults' = <<>>
    /\ containerTestResult' = <<>>
    /\ isContainerSet' = FALSE
    /\ outputFormat' = "csv"
    /\ iframeDoc' = iframeAfter(1)
    /\ UNCHANGED <<reading, timers>>

\* a Back button that always goes to the previous step
handleBackOneStep ==
    /\ userEvent
    /\ step > 1
    /\ error' = ""
    /\ selectingFor' = notSelecting
    /\ IF scrapingMode = "structured"
       THEN isContainerSet' = FALSE /\ containerTestResult' = <<>>
       ELSE UNCHANGED <<isContainerSet, containerTestResult>>
    /\ step' = step - 1
    /\ iframeDoc' = iframeAfter(step')
    /\ UNCHANGED <<startMethod, htmlContent, fileName, scrapingMode, container, extractors,
                   testResults, bsCode, outputFormat, reading, timers>>

\* a Back button that leaves the container's result and passing status
handleBackKeepingContainer ==
    /\ userEvent
    /\ step > 1
    /\ error' = ""
    /\ selectingFor' = notSelecting
    /\ IF step = 4 /\ startMethod = "file"
       THEN step' = 1 /\ htmlContent' = 0
       ELSE step' = step - 1 /\ UNCHANGED htmlContent
    /\ iframeDoc' = iframeAfter(step')
    /\ UNCHANGED <<startMethod, fileName, scrapingMode, container, containerTestResult,
                   isContainerSet, extractors, testResults, bsCode, outputFormat, reading,
                   timers>>

\* lines 162-177; the Back button is on the page at steps 2 to 5
handleBack ==
    /\ userEvent
    /\ step > 1
    /\ error' = ""
    /\ selectingFor' = notSelecting
    /\ IF scrapingMode = "structured"
       THEN isContainerSet' = FALSE /\ containerTestResult' = <<>>
       ELSE UNCHANGED <<isContainerSet, containerTestResult>>
    /\ IF step = 4 /\ startMethod = "file"
       THEN step' = 1 /\ htmlContent' = 0
       ELSE step' = step - 1 /\ UNCHANGED htmlContent
    /\ iframeDoc' = iframeAfter(step')
    /\ UNCHANGED <<startMethod, fileName, scrapingMode, container, extractors, testResults,
                   bsCode, outputFormat, reading, timers>>

Next ==
    \/ \E m \in {"url", "file"} : setStartMethod(m)
    \/ \E url \in Urls : handleUrlSubmit(url)
    \/ nextToUpload
    \/ \E file \in Files : handleFileChange(file)
    \/ \E i \in 1..MaxReading : readerOnload(i)
    \/ iframeLoad
    \/ \E now \in Times : handleAddExtractor(now)
    \/ \E i \in 1..Len(extractors) : handleRemoveExtractor(extractors[i].id)
    \/ \E i \in 1..Len(extractors) :
          \/ \E value \in NameInputs : handleExtractorChange(i, "name", sanitizeName(value))
          \/ \E value \in TagInputs : handleExtractorChange(i, "tag", value)
          \/ \E value \in AttrInputs : handleExtractorChange(i, "attrs", value)
    \/ \E value \in TagInputs : handleContainerChange("tag", value)
    \/ \E value \in AttrInputs : handleContainerChange("attrs", value)
    \/ \E mode \in Modes, now \in Times : handleModeChange(mode, now)
    \/ toggleSelectingContainer
    \/ \E i \in 1..Len(extractors) : toggleSelectingExtractor(i)
    \/ testContainer
    \/ \E i \in 1..Len(extractors) : testExtractor(i)
    \/ \E el \in 1..Len(Docs[iframeDoc]) : handleClick(el)
    \/ timerFires
    \/ handleGenerateBsCode
    \/ \E format \in Formats : setOutputFormat(format)
    \/ \E now \in Times : handleStartOver(now)
    \/ handleBack

Spec == Init /\ [][Next]_vars


(***************************************************************************)
(* Properties.  descriptors is every entity descriptor of the state: the   *)
(* container and the extractors.                                           *)
(***************************************************************************)
descriptors ==
    {[tag |-> container.tag, attrs |-> container.attrs]}
    \cup {[tag |-> extractors[i].tag, attrs |-> extractors[i].attrs] : i \in 1..Len(extractors)}

\* the extractor results of the state
extractorResults == {testResults[id] : id \in DOMAIN testResults}

\* the results of the state, the container's included
allResults == extractorResults \cup seqToSet(containerTestResult)

\* C1: for every descriptor with a non-blank tag, the selector the tests query with
\* (convertToSelector) is the selector the generated program queries with
\* (convertToCssSelector).
C1_SameSelector ==
    \A d \in descriptors :
        trim(d.tag) # <<>> => convertToSelector(d.tag, d.attrs) = convertToCssSelector(d.tag, d.attrs)

\* C2: every test result of the state was computed from the tag and attributes its
\* descriptor has now, whatever the order of edits, manual tests and deferred
\* auto-tests.
C2_ResultsOfCurrentDescriptor ==
    /\ \A r \in seqToSet(containerTestResult) :
           r.input.tag = container.tag /\ r.input.attrs = container.attrs
    /\ \A i \in 1..Len(extractors) :
           extractors[i].id \in DOMAIN testResults =>
               /\ testResults[extractors[i].id].input.tag = extractors[i].tag
               /\ testResults[extractors[i].id].input.attrs = extractors[i].attrs

\* the values an edit of a field can set
FieldInputs == TagInputs \cup AttrInputs \cup {sanitizeName(value) : value \in NameInputs}

\* C3: right after handleExtractorChange for an id (typed, or from a click in the
\* preview) testResults has no entry for that id and the results of the other ids
\* are the ones of before; right after handleContainerChange containerTestResult is
\* absent and isContainerSet is false.
C3_ChangeInvalidates ==
    [][ /\ \A i \in 1..MaxExtractors :
               (/\ extractors' # extractors
                /\ \E field \in {"name", "tag", "attrs"}, value \in FieldInputs :
                       handleExtractorChange(i, field, value))
               => /\ extractors[i].id \notin DOMAIN testResults'
                  /\ \A k \in (DOMAIN testResults) \ {extractors[i].id} :
                         k \in DOMAIN testResults' /\ testResults'[k] = testResults[k]
        /\ (/\ selectingFor.kind = "extractor" /\ selectingFor' = notSelecting
            /\ \E el \in 1..Len(Docs[iframeDoc]) : handleClick(el))
               => /\ selectingFor.id \notin DOMAIN testResults'
                  /\ \A k \in (DOMAIN testResults) \ {selectingFor.id} :
                         k \in DOMAIN testResults' /\ testResults'[k] = testResults[k]
        /\ (/\ container' # container
            /\ \/ \E field \in {"tag", "attrs"}, value \in FieldInputs :
                      handleContainerChange(field, value)
               \/ selectingFor.kind = "container"
                  /\ \E el \in 1..Len(Docs[iframeDoc]) : handleClick(el))
               => containerTestResult' = <<>> /\ ~isContainerSet'
      ]_vars

\* an edited, untested extractor next to a tested one, and an edited, untested container
C3_Witness ==
    /\ step = 4 /\ scrapingMode = "structured"
    /\ container.tag # <<>> /\ containerTestResult = <<>> /\ ~isContainerSet
    /\ \E i, j \in 1..Len(extractors) :
           /\ extractors[i].id # extractors[j].id
           /\ extractors[i].tag # <<>> /\ extractors[i].id \notin DOMAIN testResults
           /\ extractors[j].id \in DOMAIN testResults

\* C4: in structured mode an extractor test result is recorded, and step 5 is
\* entered, only from a state where isContainerSet is true.
C4_OnlyWhenContainerSet ==
    [][ (/\ scrapingMode = "structured"
         /\ \/ \E k \in DOMAIN testResults' :
                   k \notin DOMAIN testResults \/ testResults'[k] # testResults[k]
            \/ step # 5 /\ step' = 5)
        => isContainerSet ]_vars

\* the document a test queried
docOf(r) == Docs[CHOOSE d \in r.input.doc : TRUE]

\* the elements of doc a selector that parses matches
matching(doc, selector) ==
    {i \in 1..Len(doc) : matchesSelector(doc[i], parseSelector(selector))}

\* r is the result of an extractor test that ran in structured mode inside the
\* matches of a container selector that parses
withinContainers(r) ==
    /\ r.input.mode = "structured" /\ r.input.container.tag # <<>>
    /\ trim(r.input.tag) # <<>> /\ r.input.doc # {}
    /\ parseSelector(convertToSelector(r.input.container.tag, r.input.container.attrs)).ok

containersOf(r) ==
    matching(docOf(r), convertToSelector(r.input.container.tag, r.input.container.attrs))

\* the containers with at least one descendant the extractor's selector matches
containersWithMatch(r) ==
    {c \in containersOf(r) :
        \E i \in matching(docOf(r), convertToSelector(r.input.tag, r.input.attrs)) :
            isDescendant(docOf(r), i, c)}

\* C5: a structured extractor test inside M >= 1 containers records as count the
\* number of containers that contain at least one match, an error exactly when
\* that count is 0, and the preview "count of M containers have a match."
C5_Coverage ==
    \A r \in extractorResults :
        (/\ withinContainers(r)
         /\ Cardinality(containersOf(r)) >= 1
         /\ parseSelector(convertToSelector(r.input.tag, r.input.attrs)).ok)
        => /\ r.count = Cardinality(containersWithMatch(r))
           /\ r.error <=> (r.count = 0)
           /\ r.preview = <<ToString(r.count), " of ", ToString(Cardinality(containersOf(r))),
                            " containers have a match.">>

\* a field found in some of the containers, twice in one of them
C5_Witness ==
    \E r \in extractorResults :
        /\ withinContainers(r)
        /\ Cardinality(containersOf(r)) = 3 /\ r.count = 2
        /\ Cardinality(matching(docOf(r), convertToSelector(r.input.tag, r.input.attrs))) = 3

\* C6: a structured extractor test whose container selector matches nothing records
\* count 0 and an error, with a diagnostic of its own: not the one of a field that
\* is not found in the containers, not the one of an empty tag, not the one of an
\* invalid selector.
C6_NoContainers ==
    \A r \in extractorResults :
        (withinContainers(r) /\ containersOf(r) = {})
        => /\ r.count = 0 /\ r.error
           /\ r.preview = <<"No containers found to test within.">>
           /\ r.preview # emptyTagResult(r.input).preview
           /\ r.preview # invalidResult(r.input).preview
           /\ \A total \in 1..(Len(docOf(r)) + 1) :
                  r.preview # coverageResult(0, total, r.input).preview

C6_Witness ==
    \E r \in extractorResults :
        /\ withinContainers(r) /\ containersOf(r) = {}
        /\ r.preview = <<"No containers found to test within.">>

\* C7: a test with an empty or whitespace-only tag records count 0 and an error
\* without querying the document, and a container tested so is not set.
C7_EmptyTag ==
    /\ \A r \in allResults :
           trim(r.input.tag) = <<>> => r.count = 0 /\ r.error /\ r.input.queries = <<>>
    /\ \A r \in seqToSet(containerTestResult) : trim(r.input.tag) = <<>> => ~isContainerSet

\* a container tested with a tag of spaces and an extractor tested with no tag
C7_Witness ==
    /\ \E r \in seqToSet(containerTestResult) : r.input.tag = <<" ">> /\ r.error
    /\ \E r \in extractorResults : r.input.tag = <<>> /\ r.error

\* a query of the test failed: the document refused a selector
queryFailed(r) ==
    \E k \in 1..Len(r.input.queries) : ~parseSelector(r.input.queries[k]).ok

\* C8: a test one of whose queries fails records count 0 and an error with the
\* invalid-tag-or-attributes diagnostic, and a container tested so is not set.
C8_QueryFailure ==
    /\ \A r \in allResults :
           queryFailed(r) => /\ r.count = 0 /\ r.error
                             /\ r.preview = <<"Invalid Tag or Attributes for testing.">>
    /\ \A r \in seqToSet(containerTestResult) : queryFailed(r) => ~isContainerSet

\* a container whose quoted class makes the selector invalid
C8_Witness ==
    \E r \in seqToSet(containerTestResult) :
        /\ queryFailed(r) /\ trim(r.input.tag) # <<>> /\ includes(r.input.attrs, DQ)
        /\ r.preview = <<"Invalid Tag or Attributes for testing.">>

\* C9: the extractor list always has at least one extractor.
C9_AtLeastOneExtractor == Len(extractors) >= 1

shown(r) == [count |-> r.count, preview |-> r.preview, error |-> r.error]

\* the container descriptors two runs can differ in
ContainerVariants == {[tag |-> tag, attrs |-> attrs] : tag \in TagInputs, attrs \in AttrInputs \cup {<<>>}}

\* C11: in simple mode the container is absent and ignored: the container descriptor
\* is empty and isContainerSet is false, and with any other container descriptor the
\* test of the extractor records the same result and the same program is generated.
C11_SimpleModeNoContainer ==
    scrapingMode = "simple"
    => /\ container = emptyDescriptor
       /\ ~isContainerSet
       /\ \A other \in ContainerVariants :
              /\ \A i \in 1..Len(extractors) :
                     shown(handleTestResult("extractor", extractors[i].tag, extractors[i].attrs,
                                            step = 4, iframeDoc, scrapingMode, other))
                     = shown(handleTestResult("extractor", extractors[i].tag, extractors[i].attrs,
                                              step = 4, iframeDoc, scrapingMode, container))
              /\ generateBeautifulSoupCode(scrapingMode, other, extractors, fileName, outputFormat)
                 = generateBeautifulSoupCode(scrapingMode, container, extractors, fileName,
                                             outputFormat)

\* the part of a program that selects and extracts: the container selector, the field
\* selectors and, in a structured program, the item names of the extraction statements
extractionOf(code) ==
    [kind |-> code.kind, mode |-> code.mode,
     container_selector |-> code.container_selector,
     selectors |-> [i \in 1..Len(code.fields) |-> code.fields[i].selector],
     items |-> IF code.mode = "structured"
               THEN [i \in 1..Len(code.fields) |-> code.fields[i].name]
               ELSE <<>>]

\* C12: a change of the output format at step 5 leaves container, extractors,
\* testResults, containerTestResult and isContainerSet unchanged, and the program of
\* the new format has the container selector, the field selectors and the extraction
\* statements of the program of the old format, as has the program of every format.
C12_FormatStep ==
    (outputFormat' # outputFormat /\ step = 5 /\ step' = 5)
    => /\ UNCHANGED <<container, extractors, testResults, containerTestResult, isContainerSet>>
       /\ extractionOf(bsCode') = extractionOf(bsCode)
       /\ \A format \in Formats :
              extractionOf(generateBeautifulSoupCode(scrapingMode, container, extractors,
                                                     fileName, format))
              = extractionOf(bsCode')

C12_FormatOnlyChangesOutput == [][C12_FormatStep]_vars

C12_Witness ==
    /\ step = 5
    /\ scrapingMode = "structured"
    /\ outputFormat = "print"
    /\ bsCode.kind = "program"
    /\ bsCode.tail = "print"

\* C13: while the wizard is at step 5 the displayed program is
\* generateBeautifulSoupCode of the current mode, container, extractors, file name and
\* output format; no program of an earlier format stays displayed.
C13_DisplayedIsCurrent ==
    step = 5
    => bsCode = generateBeautifulSoupCode(scrapingMode, container, extractors, fileName,
                                          outputFormat)

C13_Witness ==
    /\ step = 5
    /\ outputFormat = "json"
    /\ bsCode.kind = "program"
    /\ bsCode.tail = "json"
    /\ bsCode.imports = importsOf("json")

(***************************************************************************)
(* The generator and the tests as functions of their arguments: the        *)
(* arguments are drawn from bounded sets, without the guards of the        *)
(* wizard, and the actions apply generateBeautifulSoupCode (part_000) and  *)
(* handleTest (App.tsx) to them.                                           *)
(***************************************************************************)
sTab == <<"\t">>

\* file names: one with a double quote, one with a backslash followed by t
GenFileNames == {pageFile.name, <<"a", BS, "t", ".", "h", "t", "m", "l">>}

\* containers: no clause, class="card", and k=a"b whose value holds a double quote
GenContainers ==
    {[tag |-> tag, attrs |-> attrs] :
        tag \in {<<>>, <<" ">>, sDiv},
        attrs \in {<<>>, sClass \o <<"=", DQ>> \o sCard \o <<DQ>>, <<"k", "=", "a", DQ, "b">>}}

\* fields, one with the clause k=a\t whose value holds a backslash; the names of the
\* last two cannot be typed into the name input (line 392 replaces every character
\* outside [a-zA-Z0-9_]) but can be passed to the generator
GenFields ==
    {[name |-> <<"t">>, tag |-> sSpan, attrs |-> <<>>],
     [name |-> <<"t">>, tag |-> sSpan, attrs |-> sOn \o <<"x", "=", "f">>],
     [name |-> <<"u">>, tag |-> sSpan, attrs |-> sClass \o <<"=", "t">>],
     [name |-> <<"u">>, tag |-> sSpan, attrs |-> <<"k", "=", "a", BS, "t">>],
     [name |-> <<"t", SQ>>, tag |-> sSpan, attrs |-> <<>>],
     [name |-> <<>>, tag |-> <<>>, attrs |-> <<>>]}

withId(id, f) == [id |-> id, name |-> f.name, tag |-> f.tag, attrs |-> f.attrs]

GenExtractorLists ==
    {<<>>} \cup {<<withId(1, f)>> : f \in GenFields}
           \cup {<<withId(1, f), withId(2, g)>> : f \in GenFields, g \in GenFields}

GenInit ==
    /\ step = 4
    /\ startMethod = "file"
    /\ htmlContent = 1
    /\ fileName \in GenFileNames
    /\ scrapingMode \in Modes
    /\ container \in GenContainers
    /\ containerTestResult = <<>>
    /\ isContainerSet = FALSE
    /\ extractors \in GenExtractorLists
    /\ testResults = <<>>
    /\ selectingFor = notSelecting
    /\ error = ""
    /\ bsCode = noCode
    /\ outputFormat = "csv"
    /\ iframeDoc = 1
    /\ reading = <<>>
    /\ timers = <<>>
    /\ events = 0

\* generateBeautifulSoupCode applied to the arguments
applyGenerator(format) ==
    /\ outputFormat' = format
    /\ bsCode' = generateBeautifulSoupCode(scrapingMode, container, extractors, fileName, format)
    /\ UNCHANGED <<step, startMethod, htmlContent, fileName, scrapingMode, container,
                   containerTestResult, isContainerSet, extractors, testResults, selectingFor,
                   error, iframeDoc, reading, timers, events>>

\* handleTest('container', 'container', tag, attrs) applied to the arguments
applyContainerTest ==
    /\ handleTest("container", 0, container.tag, container.attrs, scrapingMode, container)
    /\ UNCHANGED <<step, startMethod, htmlContent, fileName, scrapingMode, container,
                   extractors, selectingFor, error, bsCode, outputFormat, iframeDoc, reading,
                   timers, events>>

\* handleTest('extractor', id, tag, attrs) applied to the arguments
applyExtractorTest(i) ==
    /\ i \in 1..Len(extractors)
    /\ handleTest("extractor", extractors[i].id, extractors[i].tag, extractors[i].attrs,
                  scrapingMode, container)
    /\ UNCHANGED <<step, startMethod, htmlContent, fileName, scrapingMode, container,
                   extractors, selectingFor, error, bsCode, outputFormat, iframeDoc, reading,
                   timers, events>>

GenNext ==
    \/ \E format \in Formats : applyGenerator(format)
    \/ applyContainerTest
    \/ \E i \in 1..Len(extractors) : applyExtractorTest(i)

SpecGen == GenInit /\ [][GenNext]_vars

(***************************************************************************)
(* The emitted program as Python reads it.  The record of a program holds  *)
(* the bodies of its string literals: file_name, container_selector and    *)
(* the field selectors stand between double quotes (part_000 lines 83, 93, *)
(* 154, 247), the names between single quotes (lines 94, 173, 192).        *)
(***************************************************************************)
\* the character a backslash and c denote; a backslash before any other character
\* stays in the string together with it
pyEscape(c) ==
    IF c \in {BS, SQ, DQ} THEN <<c>>
    ELSE IF c = "t" THEN sTab
    ELSE IF c = "n" THEN <<"\n">>
    ELSE IF c = "r" THEN <<"\r">>
    ELSE IF c = "f" THEN <<"\f">>
    ELSE <<BS, c>>

\* the string denoted by s[i..] inside a literal delimited by q, and whether the
\* literal is still open at the end of s, where its closing delimiter stands
RECURSIVE pyChars(_, _, _)
pyChars(s, i, q) ==
    IF i > Len(s) THEN [closed |-> TRUE, value |-> <<>>]
    ELSE IF s[i] = q \/ s[i] = "\n" THEN [closed |-> FALSE, value |-> <<>>]
    ELSE IF s[i] = BS
    THEN IF i = Len(s) THEN [closed |-> FALSE, value |-> <<>>]
         ELSE LET rest == pyChars(s, i + 2, q)
              IN  [closed |-> rest.closed, value |-> pyEscape(s[i + 1]) \o rest.value]
    ELSE LET rest == pyChars(s, i + 1, q)
         IN  [closed |-> rest.closed, value |-> <<s[i]>> \o rest.value]

\* the literal q body q is one string literal and denotes value
denotes(body, q, value) ==
    LET d == pyChars(body, 1, q) IN d.closed /\ d.value = value

\* the names a program writes: every item name of a structured program, the column
\* name of the csv and json tails of a simple program
writesName(code) == code.mode = "structured" \/ code.tail # "print"

\* C14: in an emitted program the literal of the file name denotes exactly the file
\* name and the literal of each field name denotes exactly that field's name.
C14_LiteralsDenoteNames ==
    bsCode.kind = "program"
    => /\ denotes(bsCode.file_name, DQ, fileName)
       /\ writesName(bsCode)
          => \A i \in 1..Len(bsCode.fields) :
                 denotes(bsCode.fields[i].name, SQ, extractors[i].name)

(***************************************************************************)
(* The extraction loop of the structured program (part_000 lines 83-96)    *)
(* run on a document.                                                      *)
(***************************************************************************)
\* field_element = container.select_one("..."): the first match inside the container
selectOne(doc, c, selector) ==
    LET p == parseSelector(selector)
        found == SelectSeq(indexSeq(Len(doc)),
                           LAMBDA i : isDescendant(doc, i, c) /\ matchesSelector(doc[i], p))
    IN  IF found = <<>> THEN <<>> ELSE <<Head(found)>>

\* field_element.get_text(strip=True) if field_element else None: None is <<>>
fieldValue(doc, el) == IF el = <<>> THEN <<>> ELSE <<trim(doc[el[1]].text)>>

\* item after the statements item['name'] = ... of fields 1..k: a Python dict
RECURSIVE itemAfter(_, _, _, _, _)
itemAfter(doc, c, names, selectors, k) ==
    IF k = 0 THEN <<>>
    ELSE LET before == itemAfter(doc, c, names, selectors, k - 1)
             value == fieldValue(doc, selectOne(doc, c, selectors[k]))
         IN  [n \in (DOMAIN before) \cup {names[k]} |->
                 IF n = names[k] THEN value ELSE before[n]]

\* all_items when the program ends; ok is false when the program is not Python or a
\* selector is rejected by select / select_one
runProgram(doc, code) ==
    LET cs == pyChars(code.container_selector, 1, DQ)
        names == [i \in 1..Len(code.fields) |-> pyChars(code.fields[i].name, 1, SQ)]
        sels == [i \in 1..Len(code.fields) |-> pyChars(code.fields[i].selector, 1, DQ)]
        containers == querySelectorAll(doc, cs.value)
        ok == /\ cs.closed
              /\ \A i \in 1..Len(code.fields) : names[i].closed /\ sels[i].closed
              /\ ~containers.throws
              /\ containers.els # <<>>
                 => \A i \in 1..Len(code.fields) : parseSelector(sels[i].value).ok
    IN  [ok |-> ok,
         all_items |->
            IF ~ok THEN <<>>
            ELSE [j \in 1..Len(containers.els) |->
                     itemAfter(doc, containers.els[j],
                               [i \in 1..Len(code.fields) |-> names[i].value],
                               [i \in 1..Len(code.fields) |-> sels[i].value],
                               Len(code.fields))]]

\* the number of records in which the field named name is not None
nonNull(items, name) ==
    Cardinality({j \in 1..Len(items) : name \in DOMAIN items[j] /\ items[j][name] # <<>>})

\* the definitions handleGenerateBsCode accepts in structured mode (lines 113-122),
\* with names as the name input leaves them (line 392)
structuredDefinitionsValid ==
    /\ trim(container.tag) # <<>>
    /\ Len(extractors) >= 1
    /\ \A i \in 1..Len(extractors) :
           /\ trim(extractors[i].name) # <<>>
           /\ trim(extractors[i].tag) # <<>>
           /\ extractors[i].name = sanitizeName(extractors[i].name)

\* C15: the structured extraction loop produces one record per container element with
\* one entry per defined field, so the number of records equals the count of the
\* container test and the number of non-null values of a field equals the coverage
\* count of that field's test.
C15_OneRecordPerContainer ==
    (bsCode.kind = "program" /\ bsCode.mode = "structured" /\ structuredDefinitionsValid)
    => LET run == runProgram(Docs[htmlContent], bsCode)
       IN  /\ run.ok
           /\ \A j \in 1..Len(run.all_items) :
                  Cardinality(DOMAIN run.all_items[j]) = Len(extractors)
           /\ containerTestResult # <<>>
              => Len(run.all_items) = containerTestResult[1].count
           /\ \A i \in 1..Len(extractors) :
                  extractors[i].id \in DOMAIN testResults
                  => nonNull(run.all_items, extractors[i].name)
                     = testResults[extractors[i].id].count

\* the generation preconditions are unmet
preconditionsUnmet(mode, cont, exts) ==
    IF mode = "structured"
    THEN \/ trim(cont.tag) = <<>>
         \/ Len(exts) = 0
         \/ \E i \in 1..Len(exts) : trim(exts[i].name) = <<>> \/ trim(exts[i].tag) = <<>>
    ELSE Len(exts) = 0 \/ trim(exts[1].tag) = <<>>

\* C16: whenever the generation preconditions are unmet, the text produced is the
\* placeholder and never an extraction program.
C16_PlaceholderWhenUnmet ==
    (step = 5 /\ preconditionsUnmet(scrapingMode, container, extractors))
    => bsCode = placeholderCode

\* C17: every query handleTest makes runs against the fully loaded document of the
\* currently uploaded file: a step that records a result of a query finds the preview
\* frame holding the document of htmlContent, never the blank document the frame has
\* before its srcdoc has loaded.
C17_QueryStep ==
    \A r \in allResults' \ allResults :
        r.input.queries # <<>>
        => /\ htmlContent # 0
           /\ iframeDoc = htmlContent
           /\ r.input.doc = {htmlContent}

C17_QueriesLoadedDocument == [][C17_QueryStep]_vars

(***************************************************************************)
(* The two selector builders as functions of a tag and a clause: the       *)
(* container descriptor is drawn from tags and clauses of up to two        *)
(* segments, handleTest applies convertToSelector to it (the selector is   *)
(* the query its result records) and generateBeautifulSoupCode applies     *)
(* convertToCssSelector (the container_selector of the program).           *)
(***************************************************************************)
SynthTags == {<<>>, <<" ">>, sDiv, <<" ", "a", " ">>}

\* id=a b, ID="x", id='x', id=x, id=" x y", Class= card  t, k=1, k=2, k="v w", q, k=, =v
SynthSegments ==
    {sId \o <<"=", "a", " ", "b">>,
     <<"I", "D", "=", DQ, "x", DQ>>,
     sId \o <<"=", SQ, "x", SQ>>,
     sId \o <<"=", "x">>,
     sId \o <<"=", DQ, " ", "x", " ", "y", DQ>>,
     <<"C">> \o Tail(sClass) \o <<"=", " ">> \o sCard \o <<" ", " ", "t">>,
     <<"k", "=", "1">>,
     <<"k", "=", "2">>,
     <<"k", "=", DQ, "v", " ", "w", DQ>>,
     <<"q">>,
     <<"k", "=">>,
     <<"=", "v">>}

SynthClauses ==
    {<<>>} \cup SynthSegments
           \cup {a \o <<",", " ">> \o b : a \in SynthSegments, b \in SynthSegments}

SynthInit ==
    /\ step = 4
    /\ startMethod = "file"
    /\ htmlContent = 1
    /\ fileName = pageFile.name
    /\ scrapingMode = "structured"
    /\ container \in [tag : SynthTags, attrs : SynthClauses]
    /\ containerTestResult = <<>>
    /\ isContainerSet = FALSE
    /\ extractors = <<[id |-> 1, name |-> itemName(1), tag |-> sSpan, attrs |-> <<>>]>>
    /\ testResults = <<>>
    /\ selectingFor = notSelecting
    /\ error = ""
    /\ bsCode = noCode
    /\ outputFormat = "csv"
    /\ iframeDoc = 1
    /\ reading = <<>>
    /\ timers = <<>>
    /\ events = 0

SpecSynth == SynthInit /\ [][GenNext]_vars

\* the segments of a clause: a.split(',').map(p => p.trim())
segmentsOf(attrs) == [i \in 1..Len(split(attrs, ",")) |-> trim(split(attrs, ",")[i])]

keyOf(segment) == trim(substring(segment, 0, indexOf(segment, "=")))

rawValueOf(segment) == trim(substringFrom(segment, indexOf(segment, "=") + 1))

\* s stands between one matching pair of quotes
wrapped(s) ==
    /\ Len(s) >= 2
    /\ \E q \in {DQ, SQ} : startsWith(s, q) /\ endsWith(s, q)

inner(s) == SubSeq(s, 2, Len(s) - 1)

\* the value of a segment: its raw value with one layer of quoting stripped
valueOf(segment) ==
    IF wrapped(rawValueOf(segment)) THEN inner(rawValueOf(segment)) ELSE rawValueOf(segment)

\* the whitespace-delimited tokens of a value
tokensOf(value) == filterNonEmpty(splitWs(value))

\* C18: a constraint value wrapped in one matching pair of double or single quotes has
\* exactly one layer of quoting stripped before it is used: both builders synthesize
\* from key="v" and key='v' the selector they synthesize from key=v.
C18_QuotesStrippedOnce ==
    \A i \in 1..Len(segmentsOf(container.attrs)) :
        LET segment == segmentsOf(container.attrs)[i]
            bare == keyOf(segment) \o <<"=">> \o inner(rawValueOf(segment))
        IN  (/\ includes(segment, "=")
             /\ wrapped(rawValueOf(segment))
             /\ ~wrapped(inner(rawValueOf(segment))))
            => /\ convertToCssSelector(container.tag, segment)
                  = convertToCssSelector(container.tag, bare)
               /\ convertToSelector(container.tag, segment)
                  = convertToSelector(container.tag, bare)

\* C19: for an id constraint (key compared case-insensitively) and a non-blank tag,
\* both builders append '#' followed by only the first whitespace-delimited token of
\* the value.
C19_IdFirstToken ==
    \A i \in 1..Len(segmentsOf(container.attrs)) :
        LET segment == segmentsOf(container.attrs)[i]
            tokens == tokensOf(valueOf(segment))
        IN  (/\ trim(container.tag) # <<>>
             /\ includes(segment, "=")
             /\ toLowerCase(keyOf(segment)) = sId
             /\ tokens # <<>>)
            => /\ convertToCssSelector(container.tag, segment)
                  = trim(container.tag) \o <<"#">> \o tokens[1]
               /\ convertToSelector(container.tag, segment)
                  = trim(container.tag) \o <<"#">> \o tokens[1]

\* the position of the last comma of a clause (0: none)
lastComma(attrs) == Max(0, CHOOSE i \in 0..Len(attrs) :
                              /\ i > 0 => attrs[i] = ","
                              /\ \A j \in (i + 1)..Len(attrs) : attrs[j] # ",")

\* the clause before its last segment, and the last segment
initOf(attrs) == SubSeq(attrs, 1, lastComma(attrs) - 1)

lastOf(attrs) == SubSeq(attrs, lastComma(attrs) + 1, Len(attrs))

\* a segment that constrains: key and value are not empty, a class value names a class
qualifying(segment) ==
    /\ includes(segment, "=")
    /\ keyOf(segment) # <<>>
    /\ valueOf(segment) # <<>>
    /\ toLowerCase(keyOf(segment)) = sClass => tokensOf(valueOf(segment)) # <<>>

generic(segment) ==
    qualifying(segment) /\ toLowerCase(keyOf(segment)) \notin {sId, sClass}

count(s, c) == Cardinality({i \in 1..Len(s) : s[i] = c})

\* what a builder's result for the tag and one segment adds to the trimmed tag
fragmentIn(selector, tag) == SubSeq(selector, Len(trim(tag)) + 1, Len(selector))

\* selector, of the clause, extends whole, the selector of the clause without its last
\* segment, by the fragment of the last segment (single: the selector of that segment
\* alone), a fragment there is exactly when the segment qualifies
grows(tag, attrs, selector, whole, single) ==
    /\ startsWithStr(selector, trim(tag))
    /\ startsWithStr(selector, whole)
    /\ selector = whole \o fragmentIn(single, tag)
    /\ qualifying(lastOf(attrs)) <=> fragmentIn(single, tag) # <<>>
    /\ fragmentIn(single, tag) # <<>> => Head(fragmentIn(single, tag)) \in {"#", ".", "["}
    /\ count(selector, "[")
       = Cardinality({i \in 1..Len(segmentsOf(attrs)) : generic(segmentsOf(attrs)[i])})

growsMonotonically(tag, attrs) ==
    /\ grows(tag, attrs, convertToCssSelector(tag, attrs),
             convertToCssSelector(tag, initOf(attrs)), convertToCssSelector(tag, lastOf(attrs)))
    /\ grows(tag, attrs, convertToSelector(tag, attrs),
             convertToSelector(tag, initOf(attrs)), convertToSelector(tag, lastOf(attrs)))

\* C20 as stated: for every tag and clause the synthesized selector starts with the
\* trimmed tag and grows monotonically, each qualifying constraint appending exactly
\* one fragment, in input order, without removing or replacing an earlier fragment;
\* two generic constraints with the same key yield two bracket filters.
C20_GrowsForEveryTag == growsMonotonically(container.tag, container.attrs)

\* C20: for every tag that is not blank and every clause, the synthesized selector
\* starts with the trimmed tag and grows monotonically: each qualifying constraint
\* appends exactly one fragment, in input order, and never removes or replaces an
\* earlier fragment; two generic constraints with the same key yield two bracket
\* filters.  (For a blank tag convertToCssSelector returns the empty selector.)
C20_GrowsMonotonically ==
    trim(container.tag) # <<>> => growsMonotonically(container.tag, container.attrs)

C20_Witness ==
    /\ container.tag = sDiv
    /\ container.attrs = <<"k", "=", "1", ",", " ", "k", "=", "2">>
    /\ containerTestResult # <<>>
    /\ containerTestResult[1].input.queries
       = << sDiv \o <<"[", "k", "=", DQ, "1", DQ, "]", "[", "k", "=", DQ, "2", DQ, "]">> >>
    /\ bsCode.kind = "program"
    /\ pyChars(bsCode.container_selector, 1, DQ).value
       = sDiv \o <<"[", "k", "=", DQ, "1", DQ, "]", "[", "k", "=", DQ, "2", DQ, "]">>

\* C21: isContainerSet is true exactly when containerTestResult is present with
\* count > 0 and error false.
C21_ContainerSetIffSuccess ==
    isContainerSet
    <=> /\ containerTestResult # <<>>
        /\ containerTestResult[1].count > 0
        /\ ~containerTestResult[1].error

C21_Witness ==
    /\ isContainerSet
    /\ containerTestResult # <<>>
    /\ containerTestResult[1].count = 3
    /\ events >= 4

\* the conditions of Generate are unmet
unmetForGenerate ==
    IF scrapingMode = "structured"
    THEN \/ ~isContainerSet
         \/ container.tag = <<>>
         \/ \E i \in 1..Len(extractors) :
                trim(extractors[i].name) = <<>> \/ trim(extractors[i].tag) = <<>>
    ELSE trim(extractors[1].name) = <<>> \/ trim(extractors[1].tag) = <<>>

\* C22: when Generate is pressed with unmet conditions, step and the program text are
\* left unchanged and a non-empty error message is set; when the conditions are met,
\* the error is cleared, the program text is set and step becomes 5.
C22_GenerateStep ==
    handleGenerateBsCode
    => IF unmetForGenerate
       THEN step' = step /\ bsCode' = bsCode /\ error' # ""
       ELSE /\ error' = ""
            /\ bsCode' = generateBeautifulSoupCode(scrapingMode, container, extractors,
                                                   fileName, outputFormat)
            /\ bsCode' # noCode
            /\ step' = 5

C22_GenerateGuarded == [][C22_GenerateStep]_vars

C22_Witness ==
    /\ step = 4
    /\ error = "Please fill in the field name and HTML tag for extraction."
    /\ bsCode.kind = "program"

\* C23: in structured mode every extractor test result in testResults was computed
\* against the current container descriptor: no result of a test made in structured
\* mode with another container descriptor remains.
C23_ResultsOfCurrentContainer ==
    scrapingMode = "structured"
    => \A r \in extractorResults :
           (r.input.mode = "structured" /\ r.input.queries # <<>>)
           => r.input.container = container

(***************************************************************************)
(* The wizard with two pages to upload: the handlers that load a document, *)
(* define and test the entities and go back, with the files pageFile and   *)
(* otherFile.                                                              *)
(***************************************************************************)
DocFiles == {pageFile, otherFile}

DocNext ==
    \/ setStartMethod("file")
    \/ \E file \in DocFiles : handleFileChange(file)
    \/ \E i \in 1..MaxReading : readerOnload(i)
    \/ iframeLoad
    \/ \E i \in 1..Len(extractors) : handleExtractorChange(i, "tag", sDiv)
    \/ handleContainerChange("tag", sDiv)
    \/ \E mode \in Modes, now \in Times : handleModeChange(mode, now)
    \/ testContainer
    \/ \E i \in 1..Len(extractors) : testExtractor(i)
    \/ handleBack

SpecDocs == Init /\ [][DocNext]_vars

\* C24: while a document is loaded, every test result in state that was computed
\* against the document of a file, and a true isContainerSet, were computed against
\* the currently loaded document: no container or extractor result from a previous
\* document remains.
C24_ResultsOfCurrentDocument ==
    htmlContent # 0
    => /\ \A r \in allResults : \A d \in r.input.doc : d # 0 => d = htmlContent
       /\ isContainerSet => \A d \in containerTestResult[1].input.doc : d = htmlContent

\* C25: the ids of the extractors in the list are pairwise distinct.
C25_DistinctIds ==
    \A i, j \in 1..Len(extractors) : i # j => extractors[i].id # extractors[j].id

\* C26: selectingFor is null, or is 'container' while the mode is structured, or is
\* the id of an extractor currently in the list.
C26_SelectingForExists ==
    \/ selectingFor = notSelecting
    \/ selectingFor.kind = "container" /\ scrapingMode = "structured"
    \/ /\ selectingFor.kind = "extractor"
       /\ \E i \in 1..Len(extractors) : extractors[i].id = selectingFor.id

(***************************************************************************)
(* Selecting in the preview: the handlers between a click in selection     *)
(* mode and its deferred test, with the callback of setTimeout(..., 0)     *)
(* run whenever it is pending (a timer that has been set fires).           *)
(***************************************************************************)
ClickNext ==
    \/ setStartMethod("file")
    \/ handleFileChange(otherFile)
    \/ \E i \in 1..MaxReading : readerOnload(i)
    \/ iframeLoad
    \/ toggleSelectingContainer
    \/ \E i \in 1..Len(extractors) : toggleSelectingExtractor(i)
    \/ \E el \in 1..Len(Docs[iframeDoc]) : handleClick(el)
    \/ timerFires
    \/ \E mode \in Modes, now \in Times : handleModeChange(mode, now)
    \/ handleGenerateBsCode
    \/ handleBack

SpecClick == Init /\ [][ClickNext]_vars /\ WF_vars(timerFires)

\* the result r was computed from the tag and attrs of the scheduled test t
computedFrom(r, t) ==
    r.input.tag = t.tag /\ r.input.attrs = t.attrs /\ r.input.queries # <<>>

\* the callback of a scheduled test records, for the target of the test, a result
\* computed from its tag and attrs
fireStep ==
    Len(timers') < Len(timers)
    => LET t == Head(timers)
       IN  IF t.type = "container"
           THEN /\ containerTestResult' # <<>>
                /\ computedFrom(containerTestResult'[1], t)
                /\ isContainerSet' = (containerTestResult'[1].count > 0)
           ELSE /\ t.id \in DOMAIN testResults'
                /\ computedFrom(testResults'[t.id], t)

\* a click in selection mode ends selection mode, gives the target the tag and attrs
\* derived from the clicked element and schedules the test of them
clickStep ==
    (selectingFor # notSelecting /\ Len(timers') > Len(timers))
    => LET t == timers'[Len(timers')]
       IN  /\ selectingFor' = notSelecting
           /\ IF selectingFor.kind = "container"
              THEN container' = [tag |-> t.tag, attrs |-> t.attrs]
              ELSE \A i \in 1..Len(extractors') :
                       extractors'[i].id = selectingFor.id
                       => extractors'[i].tag = t.tag /\ extractors'[i].attrs = t.attrs

\* C27: after an element is clicked in selection mode, selectingFor becomes null, the
\* target descriptor's tag and attrs become those derived from the clicked element,
\* and eventually a test result computed from exactly that tag and attrs is recorded
\* for the target (for the container, isContainerSet is set from it).
C27_ClickLeadsToResult ==
    /\ [][clickStep /\ fireStep]_vars
    /\ (timers # <<>>) ~> (timers = <<>>)


\* C28: for every synthesized selector, the double-quoted literal written into the
\* emitted program for it (container_selector, the argument of select_one, selector)
\* denotes exactly the synthesized selector, also when an attribute value contains a
\* double quote or a backslash.
C28_LiteralsDenoteSelectors ==
    bsCode.kind = "program"
    => /\ bsCode.mode = "structured"
          => denotes(bsCode.container_selector, DQ,
                     convertToCssSelector(container.tag, container.attrs))
       /\ \A i \in 1..Len(bsCode.fields) :
              denotes(bsCode.fields[i].selector, DQ,
                      convertToCssSelector(extractors[i].tag, extractors[i].attrs))


\* the names handleAddExtractor can give
defaultNames == {itemName(n) : n \in 1..MaxExtractors}

\* C29: after any sequence of Add Field and Remove Field without renaming (every
\* extractor still has the default name it was given), the names of the extractors
\* are pairwise distinct, so that every field has its own key and column.
C29_DefaultNamesDistinct ==
    (\A i \in 1..Len(extractors) : extractors[i].name \in defaultNames)
    => \A i, j \in 1..Len(extractors) :
           i # j => extractors[i].name # extractors[j].name


\* the step, the document and the start method agree
stepsConsistent ==
    /\ step \in 1..5
    /\ step \in {4, 5} => htmlContent # 0
    /\ step \in {2, 3} => startMethod = "url"

\* step 4 is entered by reader.onload or by Back from step 5
entersStepFour ==
    (step # 4 /\ step' = 4)
    => \/ \E i \in 1..Len(reading) : readerOnload(i)
       \/ step = 5 /\ handleBack

\* C30: in every reachable state step is in 1..5, step 4 or 5 implies that a document
\* is loaded, step 2 or 3 implies that the start method is 'url', and step 4 is
\* entered only by a completed file load or by Back from step 5.
C30_StepsConsistent == []stepsConsistent /\ [][entersStepFour]_vars

\* Back from the generated program, with a document loaded after the url path
C30_Witness ==
    /\ step = 4
    /\ bsCode.kind = "program"
    /\ startMethod = "url"
    /\ htmlContent # 0


\* what Back does: lines 164-175
backStep ==
    handleBack
    => /\ step > 1
       /\ error' = ""
       /\ selectingFor' = notSelecting
       /\ IF step = 4 /\ startMethod = "file"
          THEN step' = 1 /\ htmlContent' = 0
          ELSE step' = step - 1 /\ htmlContent' = htmlContent
       /\ scrapingMode = "structured"
          => ~isContainerSet' /\ containerTestResult' = <<>>

\* generation in structured mode needs the container's passing status (line 114)
generateNeedsContainer ==
    (step = 4 /\ step' = 5 /\ scrapingMode = "structured") => isContainerSet

\* the passing status is only gained by a test of the container that finds elements
passesByTest ==
    (~isContainerSet /\ isContainerSet')
    => /\ testContainer \/ timerFires
       /\ containerTestResult' # <<>>
       /\ containerTestResult'[1].count > 0
       /\ ~containerTestResult'[1].error

\* C31: Back at step > 1 clears the error and selection mode and moves to step - 1,
\* except at step 4 with start method 'file', where it moves to step 1 and clears the
\* loaded document; in structured mode it also clears the container's passing status,
\* so that after Back from step 5 the structured program cannot be generated again
\* until a test of the container succeeds.  Back is not enabled at step 1.
C31_BackClears == [][backStep /\ generateNeedsContainer /\ passesByTest]_vars

\* after Back from the generated structured program
C31_Witness ==
    /\ step = 4
    /\ scrapingMode = "structured"
    /\ bsCode.kind = "program"
    /\ bsCode.mode = "structured"
    /\ ~isContainerSet
    /\ containerTestResult = <<>>
    /\ container.tag # <<>>


\* the definitions and results a mode starts with
freshMode ==
    /\ container = emptyDescriptor
    /\ containerTestResult = <<>>
    /\ ~isContainerSet
    /\ Len(extractors) = 1
    /\ extractors[1].name = itemName(1)
    /\ extractors[1].tag = <<>>
    /\ extractors[1].attrs = <<>>
    /\ testResults = <<>>
    /\ error = ""

modeChangeStep == scrapingMode' # scrapingMode => freshMode'

\* C32: a mode change leaves no definition or result of the previous mode: after it
\* the container descriptor is empty, containerTestResult is absent, isContainerSet is
\* false, the extractor list is a single blank extractor named item_1, testResults is
\* empty and the error is cleared.
C32_ModeChangeResets == [][modeChangeStep]_vars

\* simple mode entered after a structured program was generated
C32_Witness ==
    /\ step = 4
    /\ scrapingMode = "simple"
    /\ bsCode.kind = "program"
    /\ bsCode.mode = "structured"
    /\ freshMode

====
